---------------------------- MODULE Spec2Model ----------------------------
(* A model of brainrust (src/src/main.rs): tokenize (the lexer's state     *)
(* machine followed by the bracket matching pass) and run_program (the     *)
(* fetch/execute loop over the token vector).                              *)
(* All indices (i, p, instr_pointer, data_pointer and the stored bracket   *)
(* pointers) are the 0-based values of the Rust code; At reads a sequence  *)
(* at such an index.                                                       *)
EXTENDS Integers, Sequences, FiniteSets, TLC

VARIABLES input, pos, state, tokens, i, pc, panic,
          data, data_pointer, instr_pointer, stdin, stdout

vars == <<input, pos, state, tokens, i, pc, panic,
          data, data_pointer, instr_pointer, stdin, stdout>>

-----------------------------------------------------------------------------
(* Bounds of the model *)

MaxProgLen == 3
MaxLoopLen == 5
MaxBracketLen == 6
MaxSrcLen == 3
MaxLineLen == 5
MaxTape == 7
MaxOut == 13

-----------------------------------------------------------------------------
(* Vec indexing with the code's 0-based indices *)

At(s, n) == s[n + 1]

SetAt(s, n, v) == [s EXCEPT ![n + 1] = v]

(* enum Token: the two bracket variants carry a usize, the others nothing   *)
(* (pointer is 0 for them and never read).                                  *)
Tok(k, n) == [kind |-> k, pointer |-> n]

(* Variant: the wildcard arm yields a token instead of None *)
char_to_token_total(ch) ==
    CASE ch = ">" -> <<Tok("RAngle", 0)>>
      [] ch = "<" -> <<Tok("LAngle", 0)>>
      [] ch = "+" -> <<Tok("Plus", 0)>>
      [] ch = "-" -> <<Tok("Minus", 0)>>
      [] ch = "." -> <<Tok("Period", 0)>>
      [] ch = "," -> <<Tok("Comma", 0)>>
      [] ch = "[" -> <<Tok("LBracket", 0)>>
      [] ch = "]" -> <<Tok("RBracket", 0)>>
      [] OTHER -> <<Tok("RAngle", 0)>>

(* fn char_to_token: Some(token) as a one-element sequence, None as <<>> *)
char_to_token(ch) ==
    CASE ch = ">" -> <<Tok("RAngle", 0)>>
      [] ch = "<" -> <<Tok("LAngle", 0)>>
      [] ch = "+" -> <<Tok("Plus", 0)>>
      [] ch = "-" -> <<Tok("Minus", 0)>>
      [] ch = "." -> <<Tok("Period", 0)>>
      [] ch = "," -> <<Tok("Comma", 0)>>
      [] ch = "[" -> <<Tok("LBracket", 0)>>
      [] ch = "]" -> <<Tok("RBracket", 0)>>
      [] OTHER -> <<>>

(* Variant: a line break after a token starts the next line at once *)
LexCharNewlineResets(st, toks, ch) ==
    CASE st = "LeadingWhitespace" ->
            IF char_to_token(ch) # <<>>
            THEN [state |-> "Token", tokens |-> toks \o char_to_token(ch)]
            ELSE [state |-> st, tokens |-> toks]
      [] st = "Token" ->
            IF char_to_token(ch) # <<>>
            THEN [state |-> st, tokens |-> toks \o char_to_token(ch)]
            ELSE IF ch = "\n" \/ ch = "\r"
            THEN [state |-> "LeadingWhitespace", tokens |-> toks]
            ELSE [state |-> "TrailingWhitespace", tokens |-> toks]
      [] st = "TrailingWhitespace" ->
            IF ch = "\n" \/ ch = "\r"
            THEN [state |-> "LeadingWhitespace", tokens |-> toks]
            ELSE [state |-> st, tokens |-> toks]

(* Variant: the first token of a line is recognized but not pushed *)
LexCharFirstLost(st, toks, ch) ==
    CASE st = "LeadingWhitespace" ->
            IF char_to_token(ch) # <<>>
            THEN [state |-> "Token", tokens |-> toks]
            ELSE [state |-> st, tokens |-> toks]
      [] st = "Token" ->
            IF char_to_token(ch) # <<>>
            THEN [state |-> st, tokens |-> toks \o char_to_token(ch)]
            ELSE [state |-> "TrailingWhitespace", tokens |-> toks]
      [] st = "TrailingWhitespace" ->
            IF ch = "\n" \/ ch = "\r"
            THEN [state |-> "LeadingWhitespace", tokens |-> toks]
            ELSE [state |-> st, tokens |-> toks]

(* One iteration of the lexer's for loop: the next state and the tokens *)
LexChar(st, toks, ch) ==
    CASE st = "LeadingWhitespace" ->
            IF char_to_token(ch) # <<>>
            THEN [state |-> "Token", tokens |-> toks \o char_to_token(ch)]
            ELSE [state |-> st, tokens |-> toks]
      [] st = "Token" ->
            IF char_to_token(ch) # <<>>
            THEN [state |-> st, tokens |-> toks \o char_to_token(ch)]
            ELSE [state |-> "TrailingWhitespace", tokens |-> toks]
      [] st = "TrailingWhitespace" ->
            IF ch = "\n" \/ ch = "\r"
            THEN [state |-> "LeadingWhitespace", tokens |-> toks]
            ELSE [state |-> st, tokens |-> toks]

(* The while loop of the LBracket arm: the value of p when it exits *)
RECURSIVE ScanForward(_, _, _)
ScanForward(toks, p, depth) ==
    IF depth > 0 /\ p < Len(toks)
    THEN ScanForward(toks, p + 1,
                     IF At(toks, p).kind = "RBracket" THEN depth - 1
                     ELSE IF At(toks, p).kind = "LBracket" THEN depth + 1
                     ELSE depth)
    ELSE p

(* Variant: the backward scan stops one index early *)
RECURSIVE ScanBackwardStopsEarly(_, _, _)
ScanBackwardStopsEarly(toks, p, depth) ==
    IF depth < 0 /\ p > 1
    THEN ScanBackwardStopsEarly(toks, p - 1,
                                IF At(toks, p).kind = "RBracket" THEN depth - 1
                                ELSE IF At(toks, p).kind = "LBracket" THEN depth + 1
                                ELSE depth)
    ELSE p

(* Variant: the backward scan does not count the RBrackets it passes *)
RECURSIVE ScanBackwardFlat(_, _, _)
ScanBackwardFlat(toks, p, depth) ==
    IF depth < 0 /\ p > 0
    THEN ScanBackwardFlat(toks, p - 1,
                          IF At(toks, p).kind = "LBracket" THEN depth + 1
                          ELSE depth)
    ELSE p

(* The while loop of the RBracket arm: the value of p when it exits *)
RECURSIVE ScanBackward(_, _, _)
ScanBackward(toks, p, depth) ==
    IF depth < 0 /\ p > 0
    THEN ScanBackward(toks, p - 1,
                      IF At(toks, p).kind = "RBracket" THEN depth - 1
                      ELSE IF At(toks, p).kind = "LBracket" THEN depth + 1
                      ELSE depth)
    ELSE p

(* Variant: the LBracket stores the index before its RBracket *)
LBracketPointerShort(p) == p - 2

(* The pointer stored by the LBracket arm *)
LBracketPointer(p) == p

(* Variant: the RBracket stores the index of the LBracket itself *)
RBracketPointerOffByOne(p) == p + 1

(* The pointer stored by the RBracket arm when tokens[p+1] is an LBracket *)
RBracketPointer(p) == p

(* The pointer stored by the RBracket arm's `else if p == 0` branch *)
RBracketFallback == 1

(* tokenize as a function of the text: the lexer loop ...                  *)
RECURSIVE LexFrom(_, _, _)
LexFrom(st, toks, text) ==
    IF text = <<>> THEN toks
    ELSE LexFrom(LexChar(st, toks, Head(text)).state,
                 LexChar(st, toks, Head(text)).tokens, Tail(text))

(* ... one iteration of the bracket matching loop, at index n: the tokens, *)
(* or ok = FALSE where the code panics ...                                 *)
MatchAt(toks, n) ==
    CASE At(toks, n).kind = "LBracket" ->
            LET p == ScanForward(toks, n + 1, 1)
            IN  IF At(toks, p - 1).kind = "RBracket"
                THEN [ok |-> TRUE,
                      tokens |-> SetAt(toks, n, Tok("LBracket", LBracketPointer(p)))]
                ELSE [ok |-> FALSE, tokens |-> toks]
      [] At(toks, n).kind = "RBracket" ->
            IF n = 0 THEN [ok |-> FALSE, tokens |-> toks]
            ELSE LET p == ScanBackward(toks, n - 1, -1)
                 IN  IF At(toks, p + 1).kind = "LBracket"
                     THEN [ok |-> TRUE,
                           tokens |-> SetAt(toks, n, Tok("RBracket", RBracketPointer(p)))]
                     ELSE IF p = 0
                     THEN [ok |-> TRUE,
                           tokens |-> SetAt(toks, n, Tok("RBracket", RBracketFallback))]
                     ELSE [ok |-> FALSE, tokens |-> toks]
      [] OTHER -> [ok |-> TRUE, tokens |-> toks]

(* ... the bracket matching loop from index n on ...                       *)
RECURSIVE MatchFrom(_, _)
MatchFrom(toks, n) ==
    IF n >= Len(toks) THEN [ok |-> TRUE, tokens |-> toks]
    ELSE IF MatchAt(toks, n).ok THEN MatchFrom(MatchAt(toks, n).tokens, n + 1)
    ELSE MatchAt(toks, n)

(* ... and the whole function: ok and the returned Vec<Token>, or a panic  *)
tokenize(text) == MatchFrom(LexFrom("LeadingWhitespace", <<>>, text), 0)

(* Variant: the increment saturates at 255 instead of wrapping *)
wrapping_add_saturating(v) == IF v = 255 THEN 255 ELSE v + 1

(* u8::wrapping_add(1) and u8::wrapping_sub(1) *)
wrapping_add(v) == (v + 1) % 256

wrapping_sub(v) == (v + 255) % 256

(* print!("{}", v as char): the char U+00vv written as UTF-8 *)
PrintChar(v) ==
    IF v < 128 THEN <<v>> ELSE <<192 + (v \div 64), 128 + (v % 64)>>

(* Variant: the LAngle arm without its zero check *)
PointerNeverAtZero(dp) == FALSE

(* `if data_pointer == 0` of the LAngle arm *)
PointerAtZero(dp) == dp = 0

(* Variant: the read leaves the byte in the stream *)
read_exact_peek(s) ==
    IF s # <<>>
    THEN [ok |-> TRUE, byte |-> Head(s), rest |-> s]
    ELSE [ok |-> FALSE, byte |-> 0, rest |-> s]

(* io::stdin().read_exact(&mut buf) with a one-byte buf: Ok and the byte,  *)
(* or Err at the end of the stream; rest is what the stream still holds.   *)
read_exact(s) ==
    IF s # <<>>
    THEN [ok |-> TRUE, byte |-> Head(s), rest |-> Tail(s)]
    ELSE [ok |-> FALSE, byte |-> 0, rest |-> s]

(* Variant: the RAngle arm leaves the data pointer where it is *)
MoveRightStays(dp) == dp

(* `data_pointer += 1` of the RAngle arm *)
MoveRight(dp) == dp + 1

(* Variant: the instruction pointer is never advanced *)
AdvanceStuck(ip) == ip

(* `instr_pointer += 1` at the end of every iteration *)
Advance(ip) == ip + 1

(* Where instr_pointer goes when a bracket's test succeeds *)
LBracketJump(pointer) == pointer

RBracketJump(pointer) == pointer

-----------------------------------------------------------------------------
(* Inputs *)

RECURSIVE SeqsUpTo(_, _)
SeqsUpTo(S, n) ==
    IF n = 0 THEN {<<>>}
    ELSE LET shorter == SeqsUpTo(S, n - 1)
         IN  shorter \cup {Append(s, c) : s \in shorter, c \in S}

Recognized == {">", "<", "+", "-", ".", ",", "[", "]"}

Alphabet == Recognized \cup {" ", "x", "\n", "\r"}

(* The characters of the lexer's line structure *)
LineAlphabet == {"+", "-", " ", "\n", "\r"}

(* Loop programs without I/O, and bracket skeletons *)
LoopAlphabet == {"+", "-", ">", "[", "]"}

BracketAlphabet == {"[", "]", "+"}

(* What standard input may hold: nothing, one byte, two bytes *)
Streams == {<<>>, <<200>>, <<65, 200>>}

InitWith(texts, streams) ==
    /\ input \in texts
    /\ stdin \in streams
    /\ pos = 0
    /\ state = "LeadingWhitespace"
    /\ tokens = <<>>
    /\ i = 0
    /\ pc = "tokenize"
    /\ panic = "none"
    /\ data = <<>>
    /\ data_pointer = 0
    /\ instr_pointer = 0
    /\ stdout = <<>>

Init == InitWith(SeqsUpTo(Recognized, MaxProgLen), Streams)

InitLoop == InitWith(SeqsUpTo(LoopAlphabet, MaxLoopLen), {<<>>})

InitBracket == InitWith(SeqsUpTo(BracketAlphabet, MaxBracketLen), {<<>>})

(* Any text, with something to read on standard input *)
InitText == InitWith(SeqsUpTo(Alphabet, MaxSrcLen), Streams)

InitLex ==
    InitWith(SeqsUpTo(Alphabet, MaxSrcLen) \cup SeqsUpTo(LineAlphabet, MaxLineLen),
             {<<>>})

(* The one-line Hello World program:                                       *)
(* ++++++++[>++++[>++>+++>+++>+<<<<-]>+>+>->>+[<]<-]>>.>---.+++++++..+++.  *)
(* >>.<-.<.+++.------.--------.>>+.>++.                                    *)
HelloWorld ==
    <<
      "+", "+", "+", "+", "+", "+", "+", "+", "[", ">", "+", "+",
      "+", "+", "[", ">", "+", "+", ">", "+", "+", "+", ">", "+",
      "+", "+", ">", "+", "<", "<", "<", "<", "-", "]", ">", "+",
      ">", "+", ">", "-", ">", ">", "+", "[", "<", "]", "<", "-",
      "]", ">", ">", ".", ">", "-", "-", "-", ".", "+", "+", "+",
      "+", "+", "+", "+", ".", ".", "+", "+", "+", ".", ">", ">",
      ".", "<", "-", ".", "<", ".", "+", "+", "+", ".", "-", "-",
      "-", "-", "-", "-", ".", "-", "-", "-", "-", "-", "-", "-",
      "-", ".", ">", ">", "+", ".", ">", "+", "+", "."
    >>

InitHello == InitWith({HelloWorld}, {<<>>})

-----------------------------------------------------------------------------
(* tokenize: the lexer loop *)

TokenizeChar ==
    /\ pc = "tokenize"
    /\ pos < Len(input)
    /\ LET r == LexChar(state, tokens, At(input, pos))
       IN  /\ state' = r.state
           /\ tokens' = r.tokens
    /\ pos' = pos + 1
    /\ UNCHANGED <<input, i, pc, panic, data, data_pointer, instr_pointer,
                   stdin, stdout>>

TokenizeEnd ==
    /\ pc = "tokenize"
    /\ pos = Len(input)
    /\ pc' = "resolve"
    /\ i' = 0
    /\ UNCHANGED <<input, pos, state, tokens, panic, data, data_pointer,
                   instr_pointer, stdin, stdout>>

(* panic!: the process aborts with the message *)
Fail(msg) ==
    /\ pc' = "panicked"
    /\ panic' = msg

MatchLBracket ==
    LET p == ScanForward(tokens, i + 1, 1)
    IN  IF At(tokens, p - 1).kind = "RBracket"
        THEN /\ tokens' = SetAt(tokens, i, Tok("LBracket", LBracketPointer(p)))
             /\ i' = i + 1
             /\ UNCHANGED <<pc, panic>>
        ELSE /\ Fail("Unmatched [")
             /\ UNCHANGED <<tokens, i>>

(* With i = 0, `i-1` overflows: a panic in a build with overflow checks;   *)
(* without them p wraps to usize::MAX and tokens[p] panics out of bounds.  *)
MatchRBracket ==
    IF i = 0
    THEN /\ \E msg \in {"attempt to subtract with overflow",
                        "index out of bounds"} : Fail(msg)
         /\ UNCHANGED <<tokens, i>>
    ELSE LET p == ScanBackward(tokens, i - 1, -1)
         IN  IF At(tokens, p + 1).kind = "LBracket"
             THEN /\ tokens' = SetAt(tokens, i, Tok("RBracket", RBracketPointer(p)))
                  /\ i' = i + 1
                  /\ UNCHANGED <<pc, panic>>
             ELSE IF p = 0
             THEN /\ tokens' = SetAt(tokens, i, Tok("RBracket", RBracketFallback))
                  /\ i' = i + 1
                  /\ UNCHANGED <<pc, panic>>
             ELSE /\ Fail("Unmatched ]")
                  /\ UNCHANGED <<tokens, i>>

(* tokenize: one iteration of the bracket matching loop *)
MatchBrackets ==
    /\ pc = "resolve"
    /\ i < Len(tokens)
    /\ CASE At(tokens, i).kind = "LBracket" -> MatchLBracket
         [] At(tokens, i).kind = "RBracket" -> MatchRBracket
         [] OTHER -> /\ i' = i + 1
                     /\ UNCHANGED <<tokens, pc, panic>>
    /\ UNCHANGED <<input, pos, state, data, data_pointer, instr_pointer,
                   stdin, stdout>>

(* tokenize returns; main calls run_program, which sets up its locals *)
RunStart ==
    /\ pc = "resolve"
    /\ i = Len(tokens)
    /\ pc' = "run"
    /\ data' = <<>>
    /\ data_pointer' = 0
    /\ instr_pointer' = 0
    /\ UNCHANGED <<input, pos, state, tokens, i, panic, stdin, stdout>>

-----------------------------------------------------------------------------
(* run_program: one iteration of the while loop *)

(* Variant: the tape grows by two cells at a time *)
GrowTwice(d, dp) == IF dp >= Len(d) THEN Append(Append(d, 0), 0) ELSE d

(* `if data_pointer >= data.len() { data.push(0) }` *)
Grow(d, dp) == IF dp >= Len(d) THEN Append(d, 0) ELSE d

Exec(t, d) ==
    CASE t.kind = "RAngle" ->
            /\ data_pointer' = MoveRight(data_pointer)
            /\ data' = d
            /\ instr_pointer' = Advance(instr_pointer)
            /\ UNCHANGED <<pc, panic, stdin, stdout>>
      [] t.kind = "LAngle" ->
            IF PointerAtZero(data_pointer)
            THEN /\ Fail("Cannot decrement zero data pointer")
                 /\ data' = d
                 /\ UNCHANGED <<data_pointer, instr_pointer, stdin, stdout>>
            ELSE /\ data_pointer' = data_pointer - 1
                 /\ data' = d
                 /\ instr_pointer' = Advance(instr_pointer)
                 /\ UNCHANGED <<pc, panic, stdin, stdout>>
      [] t.kind = "Plus" ->
            /\ data' = SetAt(d, data_pointer, wrapping_add(At(d, data_pointer)))
            /\ instr_pointer' = Advance(instr_pointer)
            /\ UNCHANGED <<pc, panic, data_pointer, stdin, stdout>>
      [] t.kind = "Minus" ->
            /\ data' = SetAt(d, data_pointer, wrapping_sub(At(d, data_pointer)))
            /\ instr_pointer' = Advance(instr_pointer)
            /\ UNCHANGED <<pc, panic, data_pointer, stdin, stdout>>
      [] t.kind = "Period" ->
            /\ stdout' = stdout \o PrintChar(At(d, data_pointer))
            /\ data' = d
            /\ instr_pointer' = Advance(instr_pointer)
            /\ UNCHANGED <<pc, panic, data_pointer, stdin>>
      [] t.kind = "Comma" ->
            IF read_exact(stdin).ok
            THEN /\ data' = SetAt(d, data_pointer, read_exact(stdin).byte)
                 /\ stdin' = read_exact(stdin).rest
                 /\ instr_pointer' = Advance(instr_pointer)
                 /\ UNCHANGED <<pc, panic, data_pointer, stdout>>
            ELSE /\ Fail("Error reading from STDIN")
                 /\ data' = d
                 /\ UNCHANGED <<data_pointer, instr_pointer, stdin, stdout>>
      [] t.kind = "LBracket" ->
            /\ instr_pointer' = Advance(IF At(d, data_pointer) = 0
                                        THEN LBracketJump(t.pointer)
                                        ELSE instr_pointer)
            /\ data' = d
            /\ UNCHANGED <<pc, panic, data_pointer, stdin, stdout>>
      [] t.kind = "RBracket" ->
            /\ instr_pointer' = Advance(IF At(d, data_pointer) # 0
                                        THEN RBracketJump(t.pointer)
                                        ELSE instr_pointer)
            /\ data' = d
            /\ UNCHANGED <<pc, panic, data_pointer, stdin, stdout>>

RunStep ==
    /\ pc = "run"
    /\ instr_pointer < Len(tokens)
    /\ At(tokens, instr_pointer).kind = "RAngle" => data_pointer + 1 < MaxTape
    /\ At(tokens, instr_pointer).kind = "Period" => Len(stdout) < MaxOut
    /\ Exec(At(tokens, instr_pointer), Grow(data, data_pointer))
    /\ UNCHANGED <<input, pos, state, tokens, i>>

(* The while condition fails: run_program and main return *)
RunEnd ==
    /\ pc = "run"
    /\ instr_pointer >= Len(tokens)
    /\ pc' = "done"
    /\ UNCHANGED <<input, pos, state, tokens, i, panic, data, data_pointer,
                   instr_pointer, stdin, stdout>>

Next ==
    \/ TokenizeChar
    \/ TokenizeEnd
    \/ MatchBrackets
    \/ RunStart
    \/ RunStep
    \/ RunEnd

Spec == Init /\ [][Next]_vars

SpecLoop == InitLoop /\ [][Next]_vars

SpecBracket == InitBracket /\ [][Next]_vars

SpecLex == InitLex /\ [][Next]_vars

SpecText == InitText /\ [][Next]_vars

(* The process is the only thread and is never suspended but by a blocking *)
(* read: whenever it can take a step, it does.                             *)
SpecFair == Init /\ [][Next]_vars /\ WF_vars(Next)

SpecHello == InitHello /\ [][Next]_vars /\ WF_vars(Next)

-----------------------------------------------------------------------------
(* Vocabulary of the properties: the bracket structure of a token vector,  *)
(* defined by counting and not by the scans of tokenize.                   *)

KindOf(toks, n) == At(toks, n).kind

Kinds(toks) == [k \in 1..Len(toks) |-> toks[k].kind]

(* LBrackets minus RBrackets among the indices a..b *)
Net(toks, a, b) ==
    Cardinality({k \in a..b : KindOf(toks, k) = "LBracket"})
      - Cardinality({k \in a..b : KindOf(toks, k) = "RBracket"})

Least(S) == CHOOSE x \in S : \A y \in S : x <= y

Greatest(S) == CHOOSE x \in S : \A y \in S : x >= y

(* The index of the RBracket closing the LBracket at o, or -1 *)
MatchingClose(toks, o) ==
    LET S == {c \in (o + 1)..(Len(toks) - 1) :
                KindOf(toks, c) = "RBracket" /\ Net(toks, o, c) = 0}
    IN  IF S = {} THEN -1 ELSE Least(S)

(* The index of the LBracket opening the RBracket at c, or -1 *)
MatchingOpen(toks, c) ==
    LET S == {o \in 0..(c - 1) :
                KindOf(toks, o) = "LBracket" /\ Net(toks, o, c) = 0}
    IN  IF S = {} THEN -1 ELSE Greatest(S)

UnmatchedOpens(toks) ==
    {k \in 0..(Len(toks) - 1) :
       KindOf(toks, k) = "LBracket" /\ MatchingClose(toks, k) = -1}

UnmatchedCloses(toks) ==
    {k \in 0..(Len(toks) - 1) :
       KindOf(toks, k) = "RBracket" /\ MatchingOpen(toks, k) = -1}

Balanced(toks) == UnmatchedOpens(toks) = {} /\ UnmatchedCloses(toks) = {}

(* run_program has been entered *)
RunStarted ==
    \/ pc \in {"run", "done"}
    \/ panic \in {"Cannot decrement zero data pointer", "Error reading from STDIN"}

(* The next iteration of run_program's loop dispatches a token of kind k *)
Dispatching(k) ==
    /\ pc = "run"
    /\ instr_pointer < Len(tokens)
    /\ KindOf(tokens, instr_pointer) = k

(* The cell under the data pointer, as the dispatch sees it *)
CurCell == IF data_pointer < Len(data) THEN At(data, data_pointer) ELSE 0

(* The next instruction executed is the one at index n; when n is past the *)
(* last instruction, the run halts instead.                                *)
NextExecutedIs(n) ==
    IF n < Len(tokens) THEN instr_pointer' = n
    ELSE instr_pointer' >= Len(tokens)

(* A step of the run that has panicked or halted: there is none *)
StoppedForGood == pc \in {"panicked", "done"} => UNCHANGED vars

-----------------------------------------------------------------------------
(* C1: in a balanced program, a LoopOpen executed on a zero cell is        *)
(* followed by the instruction right after its matching LoopClose (or by   *)
(* the halt when that LoopClose is the last instruction).                   *)
C1_SkipResumesAfterMatchingClose ==
    [][(Dispatching("LBracket") /\ Balanced(tokens) /\ CurCell = 0)
         => NextExecutedIs(MatchingClose(tokens, instr_pointer) + 1)]_vars

(* What tokenize's lexer is documented to compute: the recognized           *)
(* characters of the text, one token kind each, in order.                   *)
RECURSIVE FilterRecognized(_)
FilterRecognized(text) ==
    IF text = <<>> THEN <<>>
    ELSE Kinds(char_to_token(Head(text))) \o FilterRecognized(Tail(text))

(* C2: the token kinds tokenize produces are exactly the recognized         *)
(* characters of the source text, one instruction each, in source order.    *)
C2_LexerIsFilter ==
    pc # "tokenize" => Kinds(tokens) = FilterRecognized(input)

(* C3: for balanced brackets the matching pass does not fail, and then each *)
(* LoopOpen stores the index of its matching LoopClose and each LoopClose   *)
(* the index of its matching LoopOpen.                                      *)
C3_TargetsAreMatchIndices ==
    (pc # "tokenize" /\ Balanced(tokens)) =>
        /\ panic \notin {"Unmatched [", "Unmatched ]",
                         "attempt to subtract with overflow",
                         "index out of bounds"}
        /\ RunStarted =>
             \A k \in 0..(Len(tokens) - 1) :
                /\ KindOf(tokens, k) = "LBracket"
                     => At(tokens, k).pointer = MatchingClose(tokens, k)
                /\ KindOf(tokens, k) = "RBracket"
                     => At(tokens, k).pointer = MatchingOpen(tokens, k)

(* C4: a token vector with a LoopOpen that has no matching LoopClose never  *)
(* reaches run_program.                                                     *)
C4_UnmatchedOpenNeverRuns ==
    (pc # "tokenize" /\ UnmatchedOpens(tokens) # {}) => ~RunStarted

(* C5: a token vector with a LoopClose that has no matching LoopOpen never  *)
(* reaches run_program, and that LoopClose is given no fallback target.     *)
C5_UnmatchedCloseNeverRuns ==
    (pc # "tokenize" /\ UnmatchedCloses(tokens) # {}) => ~RunStarted

(* C6: in a balanced program, a LoopClose executed on a nonzero cell is     *)
(* followed by its matching LoopOpen, and on a zero cell by the instruction *)
(* right after the LoopClose.                                               *)
C6_CloseJumpsBackToMatchingOpen ==
    [][(Dispatching("RBracket") /\ Balanced(tokens))
         => IF CurCell # 0
            THEN instr_pointer' = MatchingOpen(tokens, instr_pointer)
            ELSE instr_pointer' = instr_pointer + 1]_vars

(* The loop of +[+] is at its LoopOpen again after one round of the body:   *)
(* the LoopClose has jumped back on a nonzero cell.                         *)
C6_Witness ==
    /\ input = <<"+", "[", "+", "]">>
    /\ pc = "run"
    /\ instr_pointer = 1
    /\ data = <<2>>

(* C7: Output appends exactly one byte, the value of the current cell, to   *)
(* standard output (so `,.` echoes its input byte unchanged).               *)
C7_OutputWritesTheCellByte ==
    [][Dispatching("Period") => stdout' = Append(stdout, CurCell)]_vars

(* The whole program consists of Increments and Decrements *)
OnlyIncDec ==
    \A k \in 0..(Len(tokens) - 1) : KindOf(tokens, k) \in {"Plus", "Minus"}

(* How many of the first n instructions are of the kind *)
CountOf(kind, n) == Cardinality({k \in 0..(n - 1) : KindOf(tokens, k) = kind})

(* C8: after any sequence of Increments and Decrements the cell holds       *)
(* (Increments - Decrements) mod 256, within 0..255, and no error is        *)
(* raised; every Increment takes the cell from v to (v+1) mod 256 and every *)
(* Decrement to (v-1) mod 256.                                              *)
C8_IncDecModulo256 ==
    /\ []((pc \in {"run", "done", "panicked"} /\ OnlyIncDec)
            => /\ panic = "none"
               /\ CurCell = (CountOf("Plus", instr_pointer)
                               - CountOf("Minus", instr_pointer)) % 256)
    /\ [](\A k \in 1..Len(data) : data[k] \in 0..255)
    /\ [][Dispatching("Plus")
            => /\ At(data', data_pointer) = (CurCell + 1) % 256
               /\ pc' = "run"]_vars
    /\ [][Dispatching("Minus")
            => /\ At(data', data_pointer) = (CurCell - 1) % 256
               /\ pc' = "run"]_vars

(* An Increment has just taken a cell from 255 to 0 *)
C8_Witness ==
    /\ input = <<"-", "+">>
    /\ pc = "run"
    /\ instr_pointer = 2
    /\ data = <<0>>

(* C9: the data pointer is never negative; MoveLeft at data pointer 0 ends  *)
(* the run with a fatal error at that instruction and nothing executes      *)
(* afterwards; MoveLeft at a positive data pointer decrements it by 1.      *)
C9_MoveLeftAtZeroIsFatal ==
    /\ [](data_pointer >= 0)
    /\ [][Dispatching("LAngle")
            => IF data_pointer = 0
               THEN /\ pc' = "panicked"
                    /\ panic' = "Cannot decrement zero data pointer"
                    /\ UNCHANGED <<data_pointer, instr_pointer, stdin, stdout>>
               ELSE /\ data_pointer' = data_pointer - 1
                    /\ pc' = "run"]_vars
    /\ [][StoppedForGood]_vars

(* MoveLeft has panicked away from the start of the program, on a tape      *)
(* that is not blank.                                                       *)
C9_Witness ==
    /\ panic = "Cannot decrement zero data pointer"
    /\ instr_pointer > 0
    /\ data # <<0>>

(* C10: only Input consumes standard input, one byte each time, in stream   *)
(* order, storing the byte in the current cell and leaving the other cells  *)
(* and the data pointer alone; Input on an exhausted stream ends the run    *)
(* with a fatal error and nothing executes afterwards.                      *)
C10_InputConsumesOneByteInOrder ==
    /\ [][Dispatching("Comma")
            => IF stdin # <<>>
               THEN /\ stdin' = Tail(stdin)
                    /\ At(data', data_pointer) = Head(stdin)
                    /\ Len(data') = Len(data) + (IF data_pointer < Len(data) THEN 0 ELSE 1)
                    /\ \A k \in 1..Len(data) :
                          k # data_pointer + 1 => data'[k] = data[k]
                    /\ data_pointer' = data_pointer
                    /\ pc' = "run"
               ELSE /\ pc' = "panicked"
                    /\ panic' = "Error reading from STDIN"
                    /\ UNCHANGED <<instr_pointer, stdin, stdout>>]_vars
    /\ [][~Dispatching("Comma") => stdin' = stdin]_vars
    /\ [][StoppedForGood]_vars

(* The second Input of a run has stored the second byte of the stream *)
C10_Witness ==
    /\ input = <<",", ">", ",">>
    /\ pc = "run"
    /\ instr_pointer = 3
    /\ data = <<65, 200>>
    /\ stdin = <<>>

(* What the instruction of the kind leaves in a cell that held 0 *)
OnZero(kind) ==
    CASE kind = "Plus" -> 1
      [] kind = "Minus" -> 255
      [] kind = "Comma" -> IF stdin # <<>> THEN Head(stdin) ELSE 0
      [] OTHER -> 0

(* C11: the tape is empty when the run starts, never shrinks, and grows     *)
(* only by one cell at a time, appended at the data pointer and holding 0   *)
(* when the instruction reads it; every dispatched instruction finds the    *)
(* data pointer below the tape length.                                      *)
C11_TapeGrowsByZeroCells ==
    /\ [](pc \in {"tokenize", "resolve"} => data = <<>>)
    /\ [][pc = "resolve" /\ pc' = "run" => data' = <<>>]_vars
    /\ [][pc = "run" /\ instr_pointer < Len(tokens)
            => /\ data_pointer >= 0
               /\ data_pointer < Len(data')]_vars
    /\ [][pc = "run"
            => \/ Len(data') = Len(data)
               \/ /\ Len(data') = Len(data) + 1
                  /\ data_pointer = Len(data)
                  /\ \A k \in 1..Len(data) : data'[k] = data[k]
                  /\ data'[Len(data')]
                       = OnZero(KindOf(tokens, instr_pointer))]_vars

(* The tape has grown twice, and the second new cell was incremented *)
C11_Witness ==
    /\ pc = "run"
    /\ data_pointer = 2
    /\ data = <<0, 0, 1>>

(* The program holds no LoopOpen and no LoopClose *)
NoBrackets ==
    \A k \in 0..(Len(tokens) - 1) :
       KindOf(tokens, k) \notin {"LBracket", "RBracket"}

(* C12: a program without brackets executes its instructions one after the *)
(* other in index order, each step either advancing the instruction pointer *)
(* by one or ending the run with one of the two fatal errors (MoveLeft at   *)
(* data pointer 0, Input on an exhausted stream); it halts normally exactly *)
(* when the instruction pointer equals the program length, and it always    *)
(* stops.                                                                   *)
C12_StraightLineProgramsStop ==
    /\ [][(pc = "run" /\ NoBrackets /\ instr_pointer < Len(tokens))
            => \/ /\ instr_pointer' = instr_pointer + 1
                  /\ pc' = "run"
               \/ /\ pc' = "panicked"
                  /\ \/ /\ KindOf(tokens, instr_pointer) = "LAngle"
                        /\ data_pointer = 0
                     \/ /\ KindOf(tokens, instr_pointer) = "Comma"
                        /\ stdin = <<>>]_vars
    /\ [][(pc = "run" /\ NoBrackets /\ instr_pointer = Len(tokens))
            => pc' = "done"]_vars
    /\ []((pc = "done" /\ NoBrackets)
            => instr_pointer = Len(tokens) /\ panic = "none")
    /\ []((pc = "run" /\ NoBrackets) => <>(pc \in {"done", "panicked"}))

(* A bracket-free program of three instructions has run to its end, with   *)
(* output written and input read on the way.                                *)
C12_Witness ==
    /\ pc = "done"
    /\ NoBrackets
    /\ Len(tokens) >= 3
    /\ instr_pointer = Len(tokens)
    /\ stdout # <<>>
    /\ data # <<0>>

(* The bytes of "Hello World!\n" *)
HelloBytes == <<72, 101, 108, 108, 111, 32, 87, 111, 114, 108, 100, 33, 10>>

(* s is an initial part of t *)
IsPrefix(s, t) == Len(s) <= Len(t) /\ \A k \in 1..Len(s) : s[k] = t[k]

(* C13: the one-line Hello World program, run on empty input, terminates    *)
(* normally, and what it has written to standard output is then exactly     *)
(* the bytes of "Hello World!" and a newline.                               *)
C13_HelloWorld ==
    /\ <>(pc = "done")
    /\ [](pc # "panicked" /\ IsPrefix(stdout, HelloBytes))
    /\ [](pc = "done" => stdout = HelloBytes /\ stdin = <<>>)

(* The program has halted normally with all thirteen bytes written *)
C13_Witness ==
    /\ pc = "done"
    /\ panic = "none"
    /\ instr_pointer = Len(HelloWorld)
    /\ stdout = HelloBytes

(* The program is balanced and begins with a LoopOpen *)
StartsWithLoop ==
    /\ Len(tokens) > 0
    /\ KindOf(tokens, 0) = "LBracket"
    /\ Balanced(tokens)

(* C14: in a balanced program that begins with a LoopOpen, run on a fresh   *)
(* tape, the instruction pointer is never inside that loop's body nor on    *)
(* its matching LoopClose: it is at the LoopOpen or past the LoopClose; the *)
(* program `[]` is past its end after its first instruction, with nothing   *)
(* written and the one tape cell still 0.                                   *)
C14_FirstLoopIsSkipped ==
    (pc \in {"run", "done"} /\ StartsWithLoop) =>
        /\ \/ instr_pointer = 0
           \/ instr_pointer > MatchingClose(tokens, 0)
        /\ Len(tokens) = 2 =>
             /\ instr_pointer \in {0} \cup {n \in Nat : n >= Len(tokens)}
             /\ stdout = <<>>
             /\ data \in {<<>>, <<0>>}

(* A leading loop with a body has been skipped and the run has gone on *)
C14_Witness ==
    /\ pc = "run"
    /\ StartsWithLoop
    /\ MatchingClose(tokens, 0) >= 2
    /\ instr_pointer > MatchingClose(tokens, 0)
    /\ instr_pointer < Len(tokens)
    /\ data # <<>>

(* The character an instruction is written as *)
CharOf(kind) ==
    CASE kind = "RAngle" -> ">"
      [] kind = "LAngle" -> "<"
      [] kind = "Plus" -> "+"
      [] kind = "Minus" -> "-"
      [] kind = "Period" -> "."
      [] kind = "Comma" -> ","
      [] kind = "LBracket" -> "["
      [] kind = "RBracket" -> "]"

(* A Program as text, one recognized character per instruction *)
Render(toks) == [k \in 1..Len(toks) |-> CharOf(toks[k].kind)]

(* The text holds recognized characters only *)
AllRecognized(text) == \A k \in 1..Len(text) : text[k] \in Recognized

(* tokenize has returned: the Program is in tokens *)
Tokenized == pc \in {"run", "done"} \/ RunStarted

(* C15: tokenizing the rendering of a Program that tokenize returned        *)
(* succeeds and gives the same Program, jump targets included; and a text   *)
(* of recognized characters only gives one instruction per character.       *)
C15_TokenizeRoundTrip ==
    Tokenized =>
        /\ tokenize(Render(tokens)).ok
        /\ tokenize(Render(tokens)).tokens = tokens
        /\ Len(tokenize(Render(tokens)).tokens) = Len(Render(tokens))
        /\ AllRecognized(input) => Len(tokens) = Len(input)

(* tokenize has returned a Program with resolved brackets from a text that  *)
(* is not its own rendering.                                                *)
C15_Witness ==
    /\ Tokenized
    /\ input # Render(tokens)
    /\ \E k \in 1..Len(tokens) : tokens[k].kind = "RBracket"
    /\ \E k \in 1..Len(tokens) : tokens[k].kind = "LBracket"

(* The model's steps and the function agree on what tokenize does *)
TokenizeAgrees ==
    /\ Tokenized => tokenize(input) = [ok |-> TRUE, tokens |-> tokens]
    /\ (pc = "panicked" /\ ~RunStarted) => ~tokenize(input).ok

(* The text holds none of the eight recognized characters *)
NoneRecognized(text) == \A k \in 1..Len(text) : text[k] \notin Recognized

(* C16: for a text without recognized characters tokenize returns the empty *)
(* Program and does not fail; run_program then halts at once: nothing is    *)
(* written, nothing is read and no tape cell is created.                    *)
C16_BlankTextIsNoOp ==
    /\ [](NoneRecognized(input)
            => /\ tokens = <<>>
               /\ panic = "none" /\ pc # "panicked"
               /\ stdout = <<>>
               /\ data = <<>>)
    /\ [][NoneRecognized(input)
            => /\ stdin' = stdin
               /\ pc = "resolve" => pc' = "run"
               /\ pc = "run" => pc' = "done"]_vars

(* A text of unrecognized characters has been run to its end, with input    *)
(* still waiting on standard input.                                         *)
C16_Witness ==
    /\ NoneRecognized(input)
    /\ Len(input) >= 3
    /\ pc = "done"
    /\ stdin = <<65, 200>>

(* C17: the matching of a LoopClose at an index i >= 1 never fails: it      *)
(* stores a target and the loop goes on to i+1, also when the LoopClose has *)
(* no matching LoopOpen; the `Unmatched ]` panic is never raised; only a    *)
(* LoopClose at index 0 makes the matching fail.                            *)
C17_CloseAfterIndexZeroNeverFails ==
    /\ [](panic # "Unmatched ]")
    /\ [][(pc = "resolve" /\ i < Len(tokens) /\ KindOf(tokens, i) = "RBracket")
            => IF i >= 1
               THEN /\ pc' = "resolve"
                    /\ panic' = "none"
                    /\ i' = i + 1
                    /\ Kinds(tokens') = Kinds(tokens)
                    /\ MatchingOpen(tokens, i) <= 0
                         => At(tokens', i).pointer \in {0, 1}
               ELSE pc' = "panicked"]_vars

(* An unmatched LoopClose away from index 0 has been given a target and     *)
(* tokenize has returned.                                                   *)
C17_Witness ==
    /\ Tokenized
    /\ \E k \in UnmatchedCloses(tokens) : k >= 2 /\ At(tokens, k).pointer = 1

(* The kind of instruction a recognized character stands for *)
KindFor(ch) ==
    CHOOSE k \in {"RAngle", "LAngle", "Plus", "Minus", "Period", "Comma",
                  "LBracket", "RBracket"} : CharOf(k) = ch

(* The kinds of the recognized characters of a text, in order *)
RECURSIVE RecognizedKinds(_)
RecognizedKinds(text) ==
    IF text = <<>> THEN <<>>
    ELSE (IF Head(text) \in Recognized THEN <<KindFor(Head(text))>> ELSE <<>>)
           \o RecognizedKinds(Tail(text))

(* s can be had from t by deleting elements *)
RECURSIVE IsSubsequence(_, _)
IsSubsequence(s, t) ==
    IF s = <<>> THEN TRUE
    ELSE IF t = <<>> THEN FALSE
    ELSE IF Head(s) = Head(t) THEN IsSubsequence(Tail(s), Tail(t))
    ELSE IsSubsequence(s, Tail(t))

(* C18: the lexer skips unrecognized characters at the start of a line;     *)
(* it emits every recognized character until the first unrecognized one     *)
(* (a line break included), which switches it to TrailingWhitespace; there  *)
(* it drops every character up to and including the next line break. The    *)
(* instructions emitted are a subsequence of the recognized characters.     *)
C18_LexerStateMachine ==
    /\ [][(pc = "tokenize" /\ pos < Len(input))
            => LET ch == At(input, pos)
               IN  CASE state = "LeadingWhitespace" /\ ch \notin Recognized ->
                          state' = state /\ tokens' = tokens
                     [] state = "LeadingWhitespace" /\ ch \in Recognized ->
                          /\ state' = "Token"
                          /\ tokens' = Append(tokens, Tok(KindFor(ch), 0))
                     [] state = "Token" /\ ch \in Recognized ->
                          /\ state' = "Token"
                          /\ tokens' = Append(tokens, Tok(KindFor(ch), 0))
                     [] state = "Token" /\ ch \notin Recognized ->
                          state' = "TrailingWhitespace" /\ tokens' = tokens
                     [] state = "TrailingWhitespace" ->
                          /\ tokens' = tokens
                          /\ state' = IF ch \in {"\n", "\r"}
                                      THEN "LeadingWhitespace"
                                      ELSE "TrailingWhitespace"]_vars
    /\ [](IsSubsequence(Kinds(tokens), RecognizedKinds(input)))
    /\ [](pc = "tokenize" =>
            IsSubsequence(Kinds(tokens), RecognizedKinds(SubSeq(input, 1, pos))))

(* The lexer has dropped a whole line after a line break that followed a    *)
(* token, and has picked up again on the line after it.                     *)
C18_Witness ==
    /\ input = <<"+", "\n", "-", "\r", "+">>
    /\ pc = "resolve"
    /\ Kinds(tokens) = <<"Plus", "Plus">>

(* The cell under the data pointer does not hold the value the dispatched   *)
(* bracket jumps on.                                                        *)
JumpTaken ==
    \/ Dispatching("LBracket") /\ CurCell = 0
    \/ Dispatching("RBracket") /\ CurCell # 0

(* C19: an executed instruction changes only what it names. The Program is  *)
(* never modified by the run; no instruction changes a cell other than the  *)
(* one under the data pointer; MoveRight, MoveLeft, Output, LoopOpen and    *)
(* LoopClose change no cell at all; only MoveRight and MoveLeft move the    *)
(* data pointer, by exactly 1; and every instruction but a taken bracket    *)
(* jump advances the instruction pointer by exactly 1.                      *)
C19_StepFrame ==
    /\ [][pc = "run" => tokens' = tokens]_vars
    /\ [][(pc = "run" /\ instr_pointer < Len(tokens) /\ pc' = "run")
            => LET kind == KindOf(tokens, instr_pointer)
               IN  /\ \A k \in 1..Len(data) :
                         (k # data_pointer + 1
                            \/ kind \notin {"Plus", "Minus", "Comma"})
                           => data'[k] = data[k]
                   /\ \A k \in (Len(data) + 1)..Len(data') :
                         (k # data_pointer + 1
                            \/ kind \notin {"Plus", "Minus", "Comma"})
                           => data'[k] = 0
                   /\ data_pointer' =
                        CASE kind = "RAngle" -> data_pointer + 1
                          [] kind = "LAngle" -> data_pointer - 1
                          [] OTHER -> data_pointer
                   /\ ~JumpTaken => instr_pointer' = instr_pointer + 1]_vars

(* A MoveLeft has been executed over a tape of two cells that are not 0 *)
C19_Witness ==
    /\ pc = "run"
    /\ instr_pointer = 3
    /\ Len(tokens) = 3
    /\ KindOf(tokens, 2) = "LAngle"
    /\ data_pointer = 0
    /\ Len(data) = 2
    /\ data[1] # 0

=============================================================================
